---- MODULE Spec2Model ----
(***************************************************************************)
(* A model of the Pudgy Penguins eligibility checker (src/checker.js):     *)
(* the key parser getWalletData, the per-wallet pipeline checkWallet with  *)
(* its three requests, and the batch loop of main.                         *)
(*                                                                         *)
(* Text is modelled as a sequence of one-character strings, so that the    *)
(* regular expressions, trim, split and the decoders are computed on the   *)
(* characters as the code computes them.                                   *)
(***************************************************************************)
EXTENDS Integers, Sequences, FiniteSets, TLC

VARIABLES
    inputLines,   \* the lines the operator put in privatekey.txt
    file,         \* the text of privatekey.txt
    mainPc,       \* where main is: start, loop, await, pause, save, done, exit1
    privateKeys,  \* main: the trimmed non-blank lines
    i,            \* main: the loop index
    pipe,         \* one record per input: the locals of its checkWallet call
    results,      \* main: the aggregated list
    successful,   \* main: counter
    failed,       \* main: counter
    eligible,     \* main: counter
    pauses,       \* how many times main ran delay(1000)
    issued,       \* the service: how many challenges it has issued
    throttled,    \* the service: how many 429 responses it has sent
    outFile,      \* the JSON written to results/, or NoFile
    mainErr,      \* the error main's catch printed, or NoError
    pInput,       \* parser harness: the string handed to checkWallet's resolution
    pResult       \* parser harness: what the resolution returned

vars == <<inputLines, file, mainPc, privateKeys, i, pipe, results, successful,
          failed, eligible, pauses, issued, throttled, outFile, mainErr, pInput,
          pResult>>

runVars == <<inputLines, file, mainPc, privateKeys, i, pipe, results, successful,
             failed, eligible, pauses, issued, throttled, outFile, mainErr>>

serviceVars == <<issued, throttled>>

parseVars == <<pInput, pResult>>

----------------------------------------------------------------------------
(* Text helpers *)

Rep(c, n) == [j \in 1..n |-> c]

HexLowerSeq == <<"0","1","2","3","4","5","6","7","8","9","a","b","c","d","e","f">>

HexUpperSeq == <<"0","1","2","3","4","5","6","7","8","9","A","B","C","D","E","F">>

HexChars == {HexLowerSeq[j] : j \in 1..16} \cup {HexUpperSeq[j] : j \in 1..16}

HexVal(c) == (CHOOSE j \in 1..16 : HexLowerSeq[j] = c \/ HexUpperSeq[j] = c) - 1

DecDigits == {"0","1","2","3","4","5","6","7","8","9"}

B58Alphabet ==
    <<"1","2","3","4","5","6","7","8","9",
      "A","B","C","D","E","F","G","H","J","K","L","M","N","P","Q","R","S","T",
      "U","V","W","X","Y","Z",
      "a","b","c","d","e","f","g","h","i","j","k","m","n","o","p","q","r","s",
      "t","u","v","w","x","y","z">>

B58Chars == {B58Alphabet[j] : j \in 1..Len(B58Alphabet)}

B58Val(c) == (CHOOSE j \in 1..Len(B58Alphabet) : B58Alphabet[j] = c) - 1

WhiteSpace == {" ", "\t", "\r", "\n"}

SetMin(S) == CHOOSE m \in S : \A n \in S : m <= n

SetMax(S) == CHOOSE m \in S : \A n \in S : n <= m

Reverse(s) == [j \in 1..Len(s) |-> s[Len(s) + 1 - j]]

\* String.prototype.trim
Trim(s) ==
    LET keep == {j \in 1..Len(s) : s[j] \notin WhiteSpace}
    IN  IF keep = {} THEN <<>> ELSE SubSeq(s, SetMin(keep), SetMax(keep))

\* String.prototype.split(sep) for a one-character separator
Split(s, sep) ==
    LET nl == {j \in 1..Len(s) : s[j] = sep}
        n == Cardinality(nl) + 1
        pos(k) == IF k = 0 THEN 0
                  ELSE IF k = n THEN Len(s) + 1
                  ELSE CHOOSE p \in nl : Cardinality({q \in nl : q < p}) = k - 1
    IN  [k \in 1..n |-> SubSeq(s, pos(k - 1) + 1, pos(k) - 1)]

\* privateKey.replace('0x', ''): the first occurrence, wherever it is
Remove0x(s) ==
    LET at == {j \in 1..(Len(s) - 1) : s[j] = "0" /\ s[j + 1] = "x"}
    IN  IF at = {} THEN s
        ELSE SubSeq(s, 1, SetMin(at) - 1) \o SubSeq(s, SetMin(at) + 2, Len(s))

\* /^[0-9a-fA-F]{n}$/
IsHexOfLength(s, n) == Len(s) = n /\ \A j \in 1..Len(s) : s[j] \in HexChars

EthKeyHexLen == 64

SolKeyHexLen == 128

EthAddressHexLen == 40

\* isValidEthereumAddress: /^0x[a-fA-F0-9]{40}$/
isValidEthereumAddress(address) ==
    /\ Len(address) = EthAddressHexLen + 2
    /\ address[1] = "0"
    /\ address[2] = "x"
    /\ \A j \in 3..Len(address) : address[j] \in HexChars

----------------------------------------------------------------------------
(* Decoders.  JSON.parse, Base58.decode (package base-58), Keypair          *)
(* (@solana/web3.js) and Wallet (ethers) are libraries the repository calls;*)
(* they are modelled by what they do on the strings the model draws.        *)

RECURSIVE DecVal(_)
\* the value of a string of decimal digits
DecVal(s) ==
    IF s = <<>> THEN 0
    ELSE DecVal(SubSeq(s, 1, Len(s) - 1)) * 10
         + ((CHOOSE j \in 1..10 : HexLowerSeq[j] = s[Len(s)]) - 1)

\* a JSON number of the form the inputs use: decimal digits, no leading zero
IsJsonInt(s) ==
    /\ Len(s) >= 1
    /\ \A j \in 1..Len(s) : s[j] \in DecDigits
    /\ (Len(s) > 1 => s[1] # "0")

\* JSON.parse of a string that starts with '[' and ends with ']', followed by
\* new Uint8Array(...), which reduces every number modulo 256.  Elements other
\* than decimal integers are not JSON in the alphabet the model draws from.
JsonParseBytes(s) ==
    LET inner == Trim(SubSeq(s, 2, Len(s) - 1))
        parts == Split(inner, ",")
        elems == [k \in 1..Len(parts) |-> Trim(parts[k])]
    IN  IF Len(s) < 2 THEN [ok |-> FALSE, bytes |-> <<>>]
        ELSE IF inner = <<>> THEN [ok |-> TRUE, bytes |-> <<>>]
        ELSE IF \A k \in 1..Len(elems) : IsJsonInt(elems[k])
             THEN [ok |-> TRUE,
                   bytes |-> [k \in 1..Len(elems) |-> DecVal(elems[k]) % 256]]
             ELSE [ok |-> FALSE, bytes |-> <<>>]

\* privateKey.match(/.{1,2}/g).map(byte => parseInt(byte, 16))
HexParseBytes(s) ==
    [k \in 1..(Len(s) \div 2) |-> HexVal(s[2 * k - 1]) * 16 + HexVal(s[2 * k])]

RECURSIVE MulAddRange(_, _, _, _, _, _)
\* digits lo..hi of the little-endian number ds in base `base`, multiplied by m
\* with `carry` coming in: the new digits and the carry going out.  The range
\* is halved so that the evaluation stays shallow.
MulAddRange(ds, lo, hi, m, carry, base) ==
    IF lo = hi
    THEN LET v == ds[lo] * m + carry
         IN  [digits |-> <<v % base>>, carry |-> v \div base]
    ELSE LET mid == (lo + hi) \div 2
             left == MulAddRange(ds, lo, mid, m, carry, base)
             right == MulAddRange(ds, mid + 1, hi, m, left.carry, base)
         IN  [digits |-> left.digits \o right.digits, carry |-> right.carry]

\* while (carry) { push(carry % base); carry = carry / base }: the carry is
\* below base * base here
CarryDigits(carry, base) ==
    IF carry = 0 THEN <<>>
    ELSE IF carry < base THEN <<carry>>
    ELSE <<carry % base, carry \div base>>

\* little-endian digits ds in base `base`: ds * m + carry
MulAdd(ds, m, carry, base) ==
    IF ds = <<>> THEN CarryDigits(carry, base)
    ELSE LET r == MulAddRange(ds, 1, Len(ds), m, carry, base)
         IN  r.digits \o CarryDigits(r.carry, base)

RECURSIVE B58Fold(_, _, _, _)
\* base-58's decode loop over characters lo..hi of s:
\* bytes = bytes * 58 + value of each character
B58Fold(s, lo, hi, bytes) ==
    IF lo > hi THEN bytes
    ELSE IF lo = hi THEN MulAdd(bytes, 58, B58Val(s[lo]), 256)
    ELSE LET mid == (lo + hi) \div 2
             left == B58Fold(s, lo, mid, bytes)
         IN  IF Len(left) > 0 THEN B58Fold(s, mid + 1, hi, left) ELSE left

\* faulty variant: leading "1" characters give no zero bytes
B58LeadingOnes_None(s) == 0

\* while (string[i] === "1" && i < string.length - 1) bytes.push(0)
B58LeadingOnes(s) ==
    LET stop == {j \in 1..Len(s) : s[j] # "1" \/ j - 1 >= Len(s) - 1}
    IN  IF stop = {} THEN 0 ELSE SetMin(stop) - 1

\* Base58.decode: throws on a character outside the alphabet
Base58Decode(s) ==
    IF \E j \in 1..Len(s) : s[j] \notin B58Chars
    THEN [ok |-> FALSE, bytes |-> <<>>]
    ELSE IF s = <<>> THEN [ok |-> TRUE, bytes |-> <<>>]
    ELSE [ok |-> TRUE,
          bytes |-> Reverse(B58Fold(s, 1, Len(s), <<0>>) \o Rep(0, B58LeadingOnes(s)))]

RECURSIVE B58Digits(_, _, _, _)
\* the base-58 digits (little-endian) of bytes lo..hi appended to `digits`
B58Digits(bytes, lo, hi, digits) ==
    IF lo > hi THEN digits
    ELSE IF lo = hi THEN MulAdd(digits, 256, bytes[lo], 58)
    ELSE LET mid == (lo + hi) \div 2
             left == B58Digits(bytes, lo, mid, digits)
         IN  IF Len(left) >= 0 THEN B58Digits(bytes, mid + 1, hi, left) ELSE left

\* PublicKey.toString(): the Base58 text of the bytes
Base58Encode(bytes) ==
    LET nz == {j \in 1..Len(bytes) : bytes[j] # 0}
        zeros == IF nz = {} THEN Len(bytes) ELSE SetMin(nz) - 1
        digits == Reverse(B58Digits(bytes, 1, Len(bytes), <<>>))
    IN  Rep("1", zeros) \o [j \in 1..Len(digits) |-> B58Alphabet[digits[j] + 1]]

SecretKeyLen == 64

SeedLen == SecretKeyLen \div 2

\* stand-in for the ed25519 public key of a 32-byte seed: a fixed function of
\* the seed bytes
Ed25519Pub(seed) == [j \in 1..SeedLen |-> (seed[j] * 5 + j) % 256]

\* Keypair.fromSecretKey: the size check, then the check that the last 32
\* bytes are the public key of the first 32
KeypairFromSecretKey(bytes) ==
    IF Len(bytes) # SecretKeyLen
    THEN [ok |-> FALSE, message |-> "bad secret key size", publicKey |-> <<>>]
    ELSE IF SubSeq(bytes, SeedLen + 1, SecretKeyLen) # Ed25519Pub(SubSeq(bytes, 1, SeedLen))
    THEN [ok |-> FALSE, message |-> "provided secretKey is invalid", publicKey |-> <<>>]
    ELSE [ok |-> TRUE, message |-> "", publicKey |-> SubSeq(bytes, SeedLen + 1, SecretKeyLen)]

\* the order of the secp256k1 group, as hex digit values
Secp256k1N ==
    [j \in 1..EthKeyHexLen |->
        HexVal((Rep("F", 31) \o <<"E">> \o
                <<"B","A","A","E","D","C","E","6","A","F","4","8","A","0","3","B",
                  "B","F","D","2","5","E","8","C","D","0","3","6","4","1","4","1">>)[j])]

\* new Wallet(key) accepts a key in 1 .. n-1 and throws otherwise
EthKeyValid(cleanKey) ==
    LET v == [j \in 1..Len(cleanKey) |-> HexVal(cleanKey[j])]
    IN  /\ \E j \in 1..Len(v) : v[j] # 0
        /\ \E j \in 1..Len(v) :
              /\ v[j] < Secp256k1N[j]
              /\ \A h \in 1..(j - 1) : v[h] = Secp256k1N[h]

\* stand-in for wallet.address: "0x" and 40 hex digits, a fixed function of
\* the key's value (not of its spelling)
EthAddress(cleanKey) ==
    LET v == [j \in 1..Len(cleanKey) |-> HexVal(cleanKey[j])]
    IN  <<"0", "x">> \o
        [j \in 1..EthAddressHexLen |->
            HexLowerSeq[((v[j] * 7 + v[j + 24] * 3 + j) % 16) + 1]]

\* an error message: the prefix a catch put before it, its text, and the HTTP
\* status and response body printed into it (0 and "" when it has none)
Msg(prefix, text, status, body) ==
    [prefix |-> prefix, text |-> text, status |-> status, body |-> body]

NoError == Msg("", "", 0, "")

\* what getWalletData does after the Ethereum attempt: lines 37-78.  `tried`
\* lists the decode branches entered so far.
SolanaFormats(privateKey, tried) ==
    LET isArray == Len(privateKey) >= 1 /\ privateKey[1] = "["
                   /\ privateKey[Len(privateKey)] = "]"
        isHex == IsHexOfLength(privateKey, SolKeyHexLen)
        branch == IF isArray THEN "array" ELSE IF isHex THEN "hex" ELSE "base58"
        decoded == IF isArray THEN JsonParseBytes(privateKey)
                   ELSE IF isHex THEN [ok |-> TRUE, bytes |-> HexParseBytes(privateKey)]
                   ELSE Base58Decode(privateKey)
        path == Append(tried, branch)
        keypair == KeypairFromSecretKey(decoded.bytes)
    IN  IF ~decoded.ok
        THEN [ok |-> FALSE, tried |-> path,
              error |-> IF isArray THEN Msg("", "Invalid array format private key", 0, "")
                        ELSE IF isHex THEN Msg("", "Invalid hex format private key", 0, "")
                        ELSE Msg("", "Invalid base58 format private key", 0, "")]
        ELSE IF ~keypair.ok
        THEN [ok |-> FALSE, tried |-> path,
              error |-> Msg("Invalid private key: ", keypair.message, 0, "")]
        ELSE [ok |-> TRUE, tried |-> path, type |-> "solana",
              wallet |-> Base58Encode(keypair.publicKey),
              privateKeyBytes |-> decoded.bytes, ethWallet |-> <<>>]

\* getWalletData: the Ethereum attempt first (its failure is swallowed), then
\* the Solana formats
getWalletData(privateKey) ==
    LET cleanKey == Remove0x(Trim(privateKey))
        ethTried == IsHexOfLength(cleanKey, EthKeyHexLen)
    IN  IF ethTried /\ EthKeyValid(cleanKey)
        THEN [ok |-> TRUE, tried |-> <<"ethereum">>, type |-> "ethereum",
              wallet |-> EthAddress(cleanKey),
              privateKeyBytes |-> <<>>, ethWallet |-> cleanKey]
        ELSE SolanaFormats(Trim(privateKey),
                           IF ethTried THEN <<"ethereum">> ELSE <<>>)

\* checkWallet, lines 176-191: how an input is resolved to an identity.  A bare
\* address is taken as it is and getWalletData is not called.
Resolve(input) ==
    IF isValidEthereumAddress(input)
    THEN [ok |-> TRUE, tried |-> <<"address">>, type |-> "address",
          wallet |-> input, privateKeyBytes |-> <<>>, ethWallet |-> <<>>]
    ELSE getWalletData(input)


----------------------------------------------------------------------------
(* The strings the model draws its inputs from *)

\* the bare address of the specification's example scenario
BareAddressA == <<"0","x","A","b","C","d","E","f","0","1","2","3","4","5","6","7","8","9","a","b","c","d","e","f","0","1","2","3","4","5","6","7","8","9","A","B","C","D","E","F","0","1">>

BareAddressB == <<"0", "x">> \o Rep("9", EthAddressHexLen)

\* a valid Ethereum private key, without and with the 0x prefix
EthKeyA == Rep("1", EthKeyHexLen - 2) \o <<"a", "B">>

EthKeyA0x == <<"0", "x">> \o EthKeyA

\* 64 hex digits that are no secp256k1 key: zero, and a value above the order
EthKeyZero == Rep("0", EthKeyHexLen)

EthKeyTooBig == Rep("f", EthKeyHexLen)

\* "0x" in the middle of 64 hex digits
EthKeyMid0x == <<"1", "0", "x">> \o Rep("2", EthKeyHexLen - 1)

SolSeedA == [j \in 1..SeedLen |-> (j * 7 + 3) % 256]

SolSeedB == [j \in 1..SeedLen |-> (j * 11 + 200) % 256]

\* valid 64-byte Solana secret keys
SolKeyA == SolSeedA \o Ed25519Pub(SolSeedA)

SolKeyB == SolSeedB \o Ed25519Pub(SolSeedB)

\* a valid key whose first bytes are zero
SolSeedZ == [j \in 1..SeedLen |-> IF j <= 2 THEN 0 ELSE (j * 13 + 90) % 256]

SolKeyZ == SolSeedZ \o Ed25519Pub(SolSeedZ)

\* 64 bytes whose second half is not the public key of the first
SolKeyBad == SolSeedA \o SolSeedA

HexOfBytes(bytes) ==
    [j \in 1..(2 * Len(bytes)) |->
        IF j % 2 = 1 THEN HexLowerSeq[(bytes[(j + 1) \div 2] \div 16) + 1]
        ELSE HexLowerSeq[(bytes[j \div 2] % 16) + 1]]

DecText(n) ==
    IF n < 10 THEN <<HexLowerSeq[n + 1]>>
    ELSE IF n < 100 THEN <<HexLowerSeq[(n \div 10) + 1], HexLowerSeq[(n % 10) + 1]>>
    ELSE <<HexLowerSeq[(n \div 100) + 1], HexLowerSeq[((n \div 10) % 10) + 1],
           HexLowerSeq[(n % 10) + 1]>>

RECURSIVE JoinRange(_, _, _, _)
JoinRange(parts, lo, hi, sep) ==
    IF lo = hi THEN parts[lo]
    ELSE LET mid == (lo + hi) \div 2
         IN  JoinRange(parts, lo, mid, sep) \o <<sep>> \o JoinRange(parts, mid + 1, hi, sep)

\* Array.prototype.join(sep)
JoinText(parts, sep) ==
    IF parts = <<>> THEN <<>> ELSE JoinRange(parts, 1, Len(parts), sep)

JsonOfBytes(bytes) ==
    <<"[">> \o JoinText([j \in 1..Len(bytes) |-> DecText(bytes[j])], ",") \o <<"]">>

SolHexA == HexOfBytes(SolKeyA)

SolJsonA == JsonOfBytes(SolKeyA)

SolBase58A == Base58Encode(SolKeyA)

SolHexB == HexOfBytes(SolKeyB)

SolHexBad == HexOfBytes(SolKeyBad)

\* the same hex digits in upper case
HexUpperOfBytes(bytes) ==
    [j \in 1..(2 * Len(bytes)) |->
        IF j % 2 = 1 THEN HexUpperSeq[(bytes[(j + 1) \div 2] \div 16) + 1]
        ELSE HexUpperSeq[(bytes[j \div 2] % 16) + 1]]

\* the valid Solana keys the parser is tried on, and the texts of a key
ValidSolanaKeys == {SolKeyA, SolKeyB, SolKeyZ}

SolanaEncodings(key) ==
    {HexOfBytes(key), HexUpperOfBytes(key), JsonOfBytes(key), Base58Encode(key)}

Garbage == <<"g","a","r","b","a","g","e">>

NotBase58 == <<"O","0","I","l">>

ShortArray == <<"[","1",",","2",",","3","]">>

BrokenArray == <<"[","1",",",",","2","]">>

EmptyArray == <<"[","]">>

OpenArray == <<"[","1",",","2">>

ParserLengths ==
    {EthAddressHexLen - 1, EthAddressHexLen, EthAddressHexLen + 1,
     EthKeyHexLen - 1, EthKeyHexLen, EthKeyHexLen + 1,
     SolKeyHexLen - 1, SolKeyHexLen, SolKeyHexLen + 1}

ParserFill == {"1", "f", "0", "A", "g"}

\* the trimmed, non-empty strings the parser is tried on
ParserInputs ==
    {pre \o Rep(c, n) : pre \in {<<>>, <<"0", "x">>}, c \in ParserFill, n \in ParserLengths}
    \cup {BareAddressA, EthKeyA, EthKeyA0x, EthKeyZero, EthKeyTooBig, EthKeyMid0x,
          SolHexA, SolJsonA, SolBase58A, SolHexB, SolHexBad,
          Garbage, NotBase58, ShortArray, BrokenArray, EmptyArray, OpenArray}
    \cup UNION {SolanaEncodings(key) : key \in ValidSolanaKeys}

----------------------------------------------------------------------------
(* The parser on its own: one input, resolved once *)

NotParsed == [ok |-> FALSE, tried |-> <<>>, error |-> NoError]

ParseInput ==
    /\ pResult = NotParsed
    /\ pResult' = Resolve(pInput)
    /\ UNCHANGED <<pInput, runVars>>


----------------------------------------------------------------------------
(* The remote service: the responses a request may receive.  `kind` is      *)
(* "http" for a response and "reject" when fetch itself rejects.            *)

JNull == [t |-> "null"]

JUndefined == [t |-> "undefined"]

JArray(items) == [t |-> "array", items |-> items]

Challenge(m, d) == [t |-> "object", message |-> m, signingDate |-> d]

Http(name, status, body, json) ==
    [name |-> name, kind |-> "http", status |-> status, body |-> body, json |-> json]

\* the n-th challenge the service issues: every one is fresh
FreshChallenge(n) ==
    Challenge(<<"m", HexLowerSeq[(n % 10) + 1]>>, <<"d", HexLowerSeq[(n % 10) + 1]>>)

MessageResponses(n) ==
    {Http("msg", 200, "", FreshChallenge(n)),
     Http("msgNull", 200, "", JNull)}

TokenResponses ==
    {Http("tokValid", 200, "", [t |-> "object", isValid |-> "true"]),
     Http("tokInvalid", 200, "", [t |-> "object", isValid |-> "false"]),
     Http("tokNoFlag", 200, "", [t |-> "object", isValid |-> "undefined"])}

EligibilityResponses ==
    {Http("elig0", 200, "", [t |-> "object", total |-> 0, categories |-> JArray(<<>>)]),
     Http("eligCats", 200, "",
          [t |-> "object", total |-> 3,
           categories |-> JArray(<<[t |-> "object", category |-> "c1"]>>)]),
     Http("eligNoCats", 200, "",
          [t |-> "object", total |-> 3, categories |-> JUndefined]),
     Http("eligNullCat", 200, "",
          [t |-> "object", total |-> 3, categories |-> JArray(<<JNull>>)]),
     Http("eligNull", 200, "", JNull)}

FaultResponses ==
    {Http("http429", 429, "slow down", JUndefined),
     Http("http500", 500, "oops", JUndefined),
     [name |-> "netfail", kind |-> "reject", status |-> 0, body |-> "fetch failed",
      json |-> JUndefined]}

\* what the service may answer to a request when it has issued n challenges
ResponsesOf(endpoint, n) ==
    FaultResponses \cup
    (IF endpoint = "AUTH_MESSAGE" THEN MessageResponses(n + 1)
     ELSE IF endpoint = "AUTH_TOKEN" THEN TokenResponses
     ELSE EligibilityResponses)

\* response.ok
ResponseOk(status) == status >= 200 /\ status <= 299

----------------------------------------------------------------------------
(* checkWallet and the three requests *)

batchSize == 5

RetryDelayMs == 2000

BatchDelayMs == 1000

\* the most 429 responses the service sends in one run of the model
MaxThrottled == 2

Unknown == <<"U","n","k","n","o","w","n">>

NoChallenge == [t |-> "undefined", message |-> <<>>, signingDate |-> <<>>]

NoResult == [status |-> "none"]

NewPipe(input) ==
    [input |-> input, pc |-> "Pending", sleeping |-> FALSE, wallet |-> Unknown,
     type |-> "none", privateKeyBytes |-> <<>>, authMessage |-> NoChallenge,
     signature |-> <<>>, log |-> <<>>, result |-> NoResult, walletNum |-> 0]

Terminal(p) == p.pc \in {"Succeeded", "Failed"}

\* a request as it is sent: the endpoint, the arguments of the call that sends
\* it, the delay slept before it, and the response (pending until it arrives)
Request(endpoint, args, delayBefore) ==
    [endpoint |-> endpoint, args |-> args, delayBefore |-> delayBefore,
     reply |-> "pending", status |-> 0, body |-> ""]

\* new TextEncoder().encode(message), on the characters challenges use
Utf8(message) ==
    [j \in 1..Len(message) |->
        IF message[j] = "m" THEN 109
        ELSE IF message[j] \in DecDigits THEN 48 + HexVal(message[j])
        ELSE 63]

\* stand-in for nacl.sign.detached: 64 bytes, a fixed function of the message
\* bytes and the secret key
NaclSignDetached(messageBytes, secretKey) ==
    [j \in 1..SecretKeyLen |->
        (secretKey[j] + j
         + (IF messageBytes = <<>> THEN 0
            ELSE 3 * messageBytes[((j - 1) % Len(messageBytes)) + 1])) % 256]

\* faulty variant: the signature is salted with a counter of the run, as a
\* randomized scheme would do
signMessage_Salted(message, privateKeyBytes) ==
    LET signature == NaclSignDetached(Utf8(message), privateKeyBytes)
    IN  <<"0", "x">> \o
        HexOfBytes([j \in 1..Len(signature) |-> (signature[j] + issued) % 256])

\* signMessage: '0x' + Buffer.from(signature).toString('hex')
signMessage(message, privateKeyBytes) ==
    <<"0", "x">> \o HexOfBytes(NaclSignDetached(Utf8(message), privateKeyBytes))

\* the prefix each request function puts before the message of what it caught
ErrorPrefix(endpoint) ==
    IF endpoint = "AUTH_MESSAGE" THEN "Error getting auth message: "
    ELSE IF endpoint = "AUTH_TOKEN" THEN "Error getting auth token: "
    ELSE "Error checking eligibility: "

\* faulty variant: the response body is left out of the message
HttpErrorMessage_NoBody(endpoint, resp) ==
    [prefix |-> ErrorPrefix(endpoint), text |-> "HTTP error! status: ",
     status |-> resp.status, body |-> ""]

\* `HTTP error! status: ${response.status}\nResponse: ${await response.text()}`
HttpErrorMessage(endpoint, resp) ==
    Msg(ErrorPrefix(endpoint), "HTTP error! status: ", resp.status, resp.body)

\* the message when fetch rejects
RejectMessage(endpoint, resp) == Msg(ErrorPrefix(endpoint), resp.body, 0, "")

\* eligibility.categories || []
CategoriesOrEmpty(json) ==
    IF json.categories.t = "undefined" THEN JArray(<<>>) ELSE json.categories

\* faulty variant: every success is reported as eligible
SuccessResult_AlwaysEligible(wallet, eligibility) ==
    [wallet |-> wallet, status |-> "success", eligible |-> TRUE,
     tokens |-> eligibility.total, categories |-> CategoriesOrEmpty(eligibility)]

\* the object checkWallet returns on success
SuccessResult(wallet, eligibility) ==
    [wallet |-> wallet, status |-> "success", eligible |-> eligibility.total > 0,
     tokens |-> eligibility.total, categories |-> CategoriesOrEmpty(eligibility)]

\* faulty variant: the error result also carries an eligibility flag
ErrorResult_WithEligible(wallet, message) ==
    [wallet |-> wallet, status |-> "error", error |-> message, eligible |-> FALSE]

\* the object checkWallet's catch returns
ErrorResult(wallet, message) ==
    [wallet |-> wallet, status |-> "error", error |-> message]

\* faulty variant: the error result is labelled with the input line
Fail_LabelledWithInput(p, message) ==
    [p EXCEPT !.pc = "Failed", !.result = ErrorResult(p.input, message)]

\* faulty variant: every error result is labelled 'Unknown'
Fail_Unlabelled(p, message) ==
    [p EXCEPT !.pc = "Failed", !.result = ErrorResult(Unknown, message)]

Fail(p, message) ==
    [p EXCEPT !.pc = "Failed", !.result = ErrorResult(p.wallet, message)]

\* faulty variant: the auth steps run for every identity that has a key
NeedsAuth_AnyKey(walletData) == walletData.type # "address"

\* if (walletData.type === 'solana')
NeedsAuth(walletData) == walletData.type = "solana"

\* faulty variant: a line that could not be parsed is still sent to the
\* eligibility endpoint
Begin_QueryUnparsed(input) ==
    LET r == Resolve(input)
        p == NewPipe(input)
    IN  IF ~r.ok
        THEN [p EXCEPT !.pc = "AwaitEligibility",
                       !.log = <<Request("ELIGIBILITY", <<p.wallet>>, 0)>>]
        ELSE LET q == [p EXCEPT !.wallet = r.wallet, !.type = r.type,
                                !.privateKeyBytes = r.privateKeyBytes]
             IN  IF NeedsAuth(r)
                 THEN [q EXCEPT !.pc = "AwaitAuthMessage",
                                !.log = <<Request("AUTH_MESSAGE", <<>>, 0)>>]
                 ELSE [q EXCEPT !.pc = "AwaitEligibility",
                                !.log = <<Request("ELIGIBILITY", <<r.wallet>>, 0)>>]

\* checkWallet up to its first await
Begin(input) ==
    LET r == Resolve(input)
        p == NewPipe(input)
    IN  IF ~r.ok THEN Fail(p, r.error)
        ELSE LET q == [p EXCEPT !.wallet = r.wallet, !.type = r.type,
                                !.privateKeyBytes = r.privateKeyBytes]
             IN  IF NeedsAuth(r)
                 THEN [q EXCEPT !.pc = "AwaitAuthMessage",
                                !.log = <<Request("AUTH_MESSAGE", <<>>, 0)>>]
                 ELSE [q EXCEPT !.pc = "AwaitEligibility",
                                !.log = <<Request("ELIGIBILITY", <<r.wallet>>, 0)>>]

PendingRequest(p) == p.log[Len(p.log)]

Answered(p, resp) ==
    [p EXCEPT !.log[Len(p.log)].reply = resp.name,
              !.log[Len(p.log)].status = resp.status,
              !.log[Len(p.log)].body = resp.body]

\* a 429: await delay(2000), then the same function with the same arguments
On429(p) == [p EXCEPT !.sleeping = TRUE]

\* faulty variant: the retry is sent at once, without the delay
RetryRequest_NoDelay(request) == Request(request.endpoint, request.args, 0)

RetryRequest(request) == Request(request.endpoint, request.args, RetryDelayMs)

\* faulty variant: the token submission is skipped
AfterAuthMessage_SkipToken(p, json) ==
    [p EXCEPT !.pc = "AwaitEligibility",
              !.log = Append(p.log, Request("ELIGIBILITY", <<p.wallet>>, 0))]

\* the JSON body getAuthToken posts, built from its three arguments
TokenBody(args) ==
    [signature |-> args[1], signingDate |-> args[2], type |-> "solana",
     wallet |-> args[3]]

\* faulty variant: the token request carries the signing date the pipeline
\* held before this challenge arrived
AfterAuthMessage_StaleDate(p, json) ==
    IF json.t = "null"
    THEN Fail(p, Msg("", "Cannot read properties of null (reading 'message')", 0, ""))
    ELSE IF Len(p.privateKeyBytes) # SecretKeyLen
    THEN Fail(p, Msg("", "bad secret key size", 0, ""))
    ELSE LET sig == signMessage(json.message, p.privateKeyBytes)
         IN  [p EXCEPT !.authMessage = json, !.signature = sig,
                       !.pc = "AwaitAuthToken",
                       !.log = Append(p.log,
                                  Request("AUTH_TOKEN",
                                          <<sig, p.authMessage.signingDate, p.wallet>>, 0))]

\* checkWallet after getAuthMessage returned: sign (nacl refuses a key that is
\* not 64 bytes), then send the token request
AfterAuthMessage(p, json) ==
    IF json.t = "null"
    THEN Fail(p, Msg("", "Cannot read properties of null (reading 'message')", 0, ""))
    ELSE IF Len(p.privateKeyBytes) # SecretKeyLen
    THEN Fail(p, Msg("", "bad secret key size", 0, ""))
    ELSE LET sig == signMessage(json.message, p.privateKeyBytes)
         IN  [p EXCEPT !.authMessage = json, !.signature = sig,
                       !.pc = "AwaitAuthToken",
                       !.log = Append(p.log,
                                  Request("AUTH_TOKEN",
                                          <<sig, json.signingDate, p.wallet>>, 0))]

\* checkWallet after getAuthToken returned: the value is not looked at
AfterAuthToken(p, json) ==
    [p EXCEPT !.pc = "AwaitEligibility",
              !.log = Append(p.log, Request("ELIGIBILITY", <<p.wallet>>, 0))]

\* checkWallet after checkPenguEligibility returned
AfterEligibility(p, json) ==
    IF json.t = "null"
    THEN Fail(p, Msg("", "Cannot read properties of null (reading 'total')", 0, ""))
    ELSE [p EXCEPT !.pc = "Succeeded", !.result = SuccessResult(p.wallet, json)]

\* one request function receiving its response, and checkWallet going on to
\* its next await or its return
OnResponse(p0, resp) ==
    LET p == Answered(p0, resp)
        endpoint == PendingRequest(p0).endpoint
    IN  IF resp.kind = "reject" THEN Fail(p, RejectMessage(endpoint, resp))
        ELSE IF ~ResponseOk(resp.status)
        THEN IF resp.status = 429 THEN On429(p)
             ELSE Fail(p, HttpErrorMessage(endpoint, resp))
        ELSE IF endpoint = "AUTH_MESSAGE" THEN AfterAuthMessage(p, resp.json)
        ELSE IF endpoint = "AUTH_TOKEN" THEN AfterAuthToken(p, resp.json)
        ELSE AfterEligibility(p, resp.json)


----------------------------------------------------------------------------
(* main *)

NoFile == [written |-> FALSE, content |-> JUndefined]

\* what readFileSync throws when privatekey.txt cannot be read
ReadError == Msg("", "ENOENT: no such file or directory, open 'privatekey.txt'", 0, "")

\* what mkdirSync or writeFileSync throws when results/ cannot be written
WriteError == Msg("", "EACCES: permission denied, mkdir 'results'", 0, "")

\* fs.readFileSync(...).split('\n').map(line => line.trim())
\*   .filter(line => line.length > 0)
NonBlankLines(text) ==
    LET lines == Split(text, "\n")
    IN  SelectSeq([k \in 1..Len(lines) |-> Trim(lines[k])], LAMBDA l : Len(l) > 0)

\* privateKeys.slice(i, i + batchSize)
Batch(keys, idx) ==
    SubSeq(keys, idx + 1, IF idx + batchSize < Len(keys) THEN idx + batchSize ELSE Len(keys))

\* the positions in privateKeys (from 1) of the window that starts at idx
Window(keys, idx) ==
    (idx + 1)..(IF idx + batchSize < Len(keys) THEN idx + batchSize ELSE Len(keys))

\* i + batch.indexOf(privateKey) + 1
WalletNum(idx, batch, privateKey) ==
    idx + (SetMin({j \in 1..Len(batch) : batch[j] = privateKey}) - 1) + 1

\* faulty variant: a success that is not eligible is not counted
CountsSuccessful_OnlyEligible(result) == result.status = "success" /\ result.eligible

\* the counters a result adds to: lines 253-270
CountsSuccessful(result) == result.status = "success"

\* faulty variant: eligible is counted for every result
CountsEligible_Always(result) == TRUE

CountsEligible(result) == result.status = "success" /\ result.eligible

CountsFailed(result) == result.status # "success"

\* result.categories.map(c => c.category) on line 260 throws when an element
\* of the list is null
LogThrows(result) ==
    /\ result.status = "success"
    /\ result.eligible
    /\ Len(result.categories.items) > 0
    /\ \E j \in 1..Len(result.categories.items) : result.categories.items[j].t = "null"

\* faulty variant: the window's results are put before the earlier ones
PushResults_Prepend(rs, batchResults) == batchResults \o rs

\* results.push(...batchResults)
PushResults(rs, batchResults) == rs \o batchResults

\* JSON.stringify(results, null, 2): every result with the fields it has
JsonStringify(rs) ==
    [k \in 1..Len(rs) |->
        IF rs[k].status = "success"
        THEN [wallet |-> rs[k].wallet, status |-> rs[k].status,
              eligible |-> rs[k].eligible, tokens |-> rs[k].tokens,
              categories |-> rs[k].categories.items]
        ELSE [wallet |-> rs[k].wallet, status |-> rs[k].status, error |-> rs[k].error]]

\* the part of the batch callback after `await checkWallet(privateKey)`, for
\* pipeline k whose checkWallet returned in state p
Callback(k, p) ==
    LET r == p.result
        num == WalletNum(i, Batch(privateKeys, i), p.input)
    IN  /\ pipe' = [pipe EXCEPT ![k] = [p EXCEPT !.walletNum = num]]
        /\ successful' = successful + (IF CountsSuccessful(r) THEN 1 ELSE 0)
        /\ eligible' = eligible + (IF CountsEligible(r) THEN 1 ELSE 0)
        /\ failed' = failed + (IF CountsFailed(r) THEN 1 ELSE 0)
        /\ IF LogThrows(r)
           THEN /\ mainPc' = "exit1"
                /\ mainErr' = Msg("", "Cannot read properties of null (reading 'category')", 0, "")
           ELSE UNCHANGED <<mainPc, mainErr>>

\* main up to the loop: read the file, or fail and exit(1)
ReadInput ==
    /\ mainPc = "start"
    /\ \E readable \in BOOLEAN :
         IF readable
         THEN LET keys == NonBlankLines(file)
              IN  /\ privateKeys' = keys
                  /\ pipe' = [k \in 1..Len(keys) |-> NewPipe(keys[k])]
                  /\ mainPc' = IF 0 < Len(keys) THEN "loop" ELSE "save"
                  /\ UNCHANGED mainErr
         ELSE /\ mainPc' = "exit1"
              /\ mainErr' = ReadError
              /\ UNCHANGED <<privateKeys, pipe>>
    /\ UNCHANGED <<inputLines, file, i, results, successful, failed, eligible,
                   pauses, serviceVars, outFile, parseVars>>

\* batch.map(async ...): every callback of the window runs checkWallet up to
\* its first await; an input that fails to parse has its result, and the rest
\* of its callback, before main is resumed
StartWindow ==
    /\ mainPc = "loop"
    /\ LET batch == Batch(privateKeys, i)
           win == Window(privateKeys, i)
           begun == [k \in win |-> Begin(batch[k - i])]
       IN  /\ pipe' = [k \in DOMAIN pipe |->
                          IF k \notin win THEN pipe[k]
                          ELSE IF Terminal(begun[k])
                          THEN [begun[k] EXCEPT !.walletNum = WalletNum(i, batch, batch[k - i])]
                          ELSE begun[k]]
           /\ failed' = failed + Cardinality({k \in win : CountsFailed(begun[k].result)
                                                          /\ Terminal(begun[k])})
    /\ mainPc' = "await"
    /\ UNCHANGED <<inputLines, file, privateKeys, i, results, successful, eligible,
                   pauses, serviceVars, outFile, mainErr, parseVars>>

\* a response (or a rejection of fetch) reaches the request pipeline k waits on
Respond(k, resp) ==
    /\ mainPc = "await"
    /\ k \in Window(privateKeys, i)
    /\ ~Terminal(pipe[k])
    /\ ~pipe[k].sleeping
    /\ resp \in ResponsesOf(PendingRequest(pipe[k]).endpoint, issued)
    /\ resp.status = 429 => throttled < MaxThrottled
    /\ issued' = issued + (IF resp.name = "msg" THEN 1 ELSE 0)
    /\ throttled' = throttled + (IF resp.status = 429 THEN 1 ELSE 0)
    /\ LET p == OnResponse(pipe[k], resp)
       IN  IF Terminal(p) THEN Callback(k, p)
           ELSE /\ pipe' = [pipe EXCEPT ![k] = p]
                /\ UNCHANGED <<successful, eligible, failed, mainPc, mainErr>>
    /\ UNCHANGED <<inputLines, file, privateKeys, i, results, pauses, outFile,
                   parseVars>>

\* delay(2000) is over: the request function calls itself
RetryTimer(k) ==
    /\ mainPc = "await"
    /\ k \in Window(privateKeys, i)
    /\ pipe[k].sleeping
    /\ pipe' = [pipe EXCEPT ![k].sleeping = FALSE,
                            ![k].log = Append(pipe[k].log,
                                              RetryRequest(PendingRequest(pipe[k])))]
    /\ UNCHANGED <<inputLines, file, mainPc, privateKeys, i, results, successful,
                   failed, eligible, pauses, serviceVars, outFile, mainErr, parseVars>>

\* faulty variant: the barrier is passed when one callback has returned
WindowSettled_Any(keys, idx, ps) == \E k \in Window(keys, idx) : Terminal(ps[k])

\* await Promise.all(...): every callback of the window has returned
WindowSettled(keys, idx, ps) == \A k \in Window(keys, idx) : Terminal(ps[k])

\* faulty variant: the pause is made after the last window too
PauseNeeded_Always(keys, idx) == TRUE

\* if (i + batchSize < privateKeys.length)
PauseNeeded(keys, idx) == idx + batchSize < Len(keys)

\* Promise.all resolves: push the window's results, then pause or leave the loop
Barrier ==
    /\ mainPc = "await"
    /\ WindowSettled(privateKeys, i, pipe)
    /\ results' = PushResults(results,
                     [j \in 1..Len(Batch(privateKeys, i)) |-> pipe[i + j].result])
    /\ IF PauseNeeded(privateKeys, i)
       THEN /\ mainPc' = "pause"
            /\ pauses' = pauses + 1
            /\ UNCHANGED i
       ELSE /\ mainPc' = "save"
            /\ i' = i + batchSize
            /\ UNCHANGED pauses
    /\ UNCHANGED <<inputLines, file, privateKeys, pipe, successful, failed, eligible,
                   serviceVars, outFile, mainErr, parseVars>>

\* delay(1000) is over: i += batchSize, and the next window
PauseDone ==
    /\ mainPc = "pause"
    /\ i' = i + batchSize
    /\ mainPc' = "loop"
    /\ UNCHANGED <<inputLines, file, privateKeys, pipe, results, successful, failed,
                   eligible, pauses, serviceVars, outFile, mainErr, parseVars>>

\* write the results file; a failure of mkdirSync or writeFileSync exits 1
Save ==
    /\ mainPc = "save"
    /\ \E writable \in BOOLEAN :
         IF writable
         THEN /\ outFile' = [written |-> TRUE, content |-> JArray(JsonStringify(results))]
              /\ mainPc' = "done"
              /\ UNCHANGED mainErr
         ELSE /\ mainPc' = "exit1"
              /\ mainErr' = WriteError
              /\ UNCHANGED outFile
    /\ UNCHANGED <<inputLines, file, privateKeys, i, pipe, results, successful,
                   failed, eligible, pauses, serviceVars, parseVars>>

----------------------------------------------------------------------------
(* The input files of the model: lines as the operator wrote them, with    *)
(* blank lines, padding and carriage returns                                *)

FileEmpty == <<>>

\* the specification's example: one bare address
FileOne == <<BareAddressA>>

\* five keys: exactly one window
FileFive == <<Garbage, BareAddressA \o <<"\r">>, NotBase58, ShortArray, EthKeyZero>>

\* six keys in eight lines: a window of five, two of them on the network, and
\* a second window of one
FileSix ==
    <<BareAddressA, Garbage, <<>>, <<" ">> \o EthKeyA \o <<"\r">>, ShortArray,
      <<" ", " ">>, NotBase58, BareAddressB>>

\* a Solana key beside a parse failure, and a second window
FileSolanaSix ==
    <<Garbage, SolHexA, ShortArray, NotBase58, OpenArray, EthKeyA0x>>

\* two Solana keys in one window
FileTwoSolana == <<SolJsonA, <<>>, SolHexB>>

\* the same line twice in one window
FileDuplicates == <<BareAddressA, BareAddressB, BareAddressA>>

\* one Ethereum key written without and with the 0x prefix, and a line that is
\* no key
FileSameAddress == <<EthKeyA, Garbage, EthKeyA0x>>

\* eleven keys: three windows
FileEleven ==
    <<Garbage, NotBase58, ShortArray, Garbage, OpenArray,
      BrokenArray, Garbage, EmptyArray, NotBase58, EthKeyTooBig,
      <<>>, EthKeyA0x>>

Files == {FileEmpty, FileOne, FileFive, FileSix, FileSolanaSix, FileTwoSolana,
          FileDuplicates, FileSameAddress, FileEleven}

Init ==
    /\ inputLines \in Files
    /\ file = JoinText(inputLines, "\n")
    /\ mainPc = "start"
    /\ privateKeys = <<>>
    /\ i = 0
    /\ pipe = <<>>
    /\ results = <<>>
    /\ successful = 0
    /\ failed = 0
    /\ eligible = 0
    /\ pauses = 0
    /\ issued = 0
    /\ throttled = 0
    /\ outFile = NoFile
    /\ mainErr = NoError
    /\ pInput = <<>>
    /\ pResult = NotParsed

Next ==
    \/ ReadInput
    \/ StartWindow
    \/ \E k \in DOMAIN pipe : \E resp \in ResponsesOf("AUTH_MESSAGE", issued)
            \cup ResponsesOf("AUTH_TOKEN", issued) \cup ResponsesOf("ELIGIBILITY", issued) :
          Respond(k, resp)
    \/ \E k \in DOMAIN pipe : RetryTimer(k)
    \/ Barrier
    \/ PauseDone
    \/ Save

Spec == Init /\ [][Next]_vars

LiveFiles == {FileEmpty, FileOne, FileSix, FileSolanaSix, FileSameAddress}

InitLive == Init /\ inputLines \in LiveFiles

\* every request is eventually answered (the number of 429 answers is
\* bounded), every timer fires, and main runs on whenever it can.  At the
\* head of the loop main starts the next window, the only step it has there.
Fairness ==
    /\ WF_vars(ReadInput)
    /\ (mainPc = "loop") ~> (mainPc # "loop")
    /\ WF_vars(\E k \in DOMAIN pipe : \E resp \in ResponsesOf("AUTH_MESSAGE", issued)
            \cup ResponsesOf("AUTH_TOKEN", issued) \cup ResponsesOf("ELIGIBILITY", issued) :
          Respond(k, resp))
    /\ WF_vars(\E k \in DOMAIN pipe : RetryTimer(k))
    /\ WF_vars(Barrier)
    /\ WF_vars(PauseDone)
    /\ WF_vars(Save)

SpecLive == InitLive /\ [][Next]_vars /\ Fairness

InitParse ==
    /\ pInput \in ParserInputs
    /\ pResult = NotParsed
    /\ inputLines = <<>>
    /\ file = <<>>
    /\ mainPc = "idle"
    /\ privateKeys = <<>>
    /\ i = 0
    /\ pipe = <<>>
    /\ results = <<>>
    /\ successful = 0
    /\ failed = 0
    /\ eligible = 0
    /\ pauses = 0
    /\ issued = 0
    /\ throttled = 0
    /\ outFile = NoFile
    /\ mainErr = NoError

NextParse == ParseInput

SpecParse == InitParse /\ [][NextParse]_vars


----------------------------------------------------------------------------
(* Properties *)

\* the non-blank lines of a file, trimmed, in the order the operator wrote them
NonBlankTrimmed(lines) ==
    SelectSeq([k \in 1..Len(lines) |-> Trim(lines[k])], LAMBDA l : Len(l) > 0)

\* the address a result for `input` carries
ExpectedWallet(input) ==
    LET r == Resolve(input) IN IF r.ok THEN r.wallet ELSE Unknown

\* for each input file, its keys and the address each key's result carries
Expected ==
    [f \in Files |->
        LET keys == NonBlankTrimmed(f)
        IN  [keys |-> keys,
             wallets |-> [k \in 1..Len(keys) |-> ExpectedWallet(keys[k])]]]

ExpectedKeys == Expected[inputLines].keys

\* C1: when main completes, results holds exactly one result per non-blank
\* trimmed input line, and the k-th result is the one the pipeline of the k-th
\* such line returned, whatever the order in which the pipelines finished.
C1_ResultsInInputOrder ==
    mainPc = "done" =>
        LET expected == Expected[inputLines]
        IN  /\ Len(results) = Len(expected.keys)
            /\ \A k \in 1..Len(results) :
                  /\ pipe[k].input = expected.keys[k]
                  /\ results[k] = pipe[k].result
                  /\ results[k].status \in {"success", "error"}
                  /\ results[k].wallet = expected.wallets[k]

\* a completed run over more than one window, of a file with blank lines,
\* with a retried request, successes and failures
C1_Witness ==
    /\ mainPc = "done"
    /\ Len(results) > batchSize
    /\ Len(inputLines) > Len(results)
    /\ throttled > 0
    /\ \E k \in 1..Len(results) : results[k].status = "success"
    /\ \E k \in 1..Len(results) : results[k].status = "error"

SetupErrors == {ReadError, WriteError}

\* C2: a failure that arises while one wallet is processed never aborts the
\* run: main exits with code 1 only for a setup failure (the input file
\* unreadable, the output not writable).
C2_WalletFailureNeverAborts ==
    mainPc = "exit1" => mainErr \in SetupErrors

\* the token request of p that the service answered successfully without a
\* true isValid
TokenNotValid(p) ==
    \E j \in 1..Len(p.log) :
        /\ p.log[j].endpoint = "AUTH_TOKEN"
        /\ p.log[j].reply \in {"tokInvalid", "tokNoFlag"}

\* C3: when the token endpoint answers successfully but without a true
\* isValid, the wallet's result is Failed and no eligibility query is sent.
C3_InvalidTokenFails ==
    \A k \in DOMAIN pipe :
        TokenNotValid(pipe[k]) =>
            /\ pipe[k].pc = "Failed"
            /\ \A j \in 1..Len(pipe[k].log) : pipe[k].log[j].endpoint # "ELIGIBILITY"

\* the rule of the specification's ordered list that an input matches first
ListedRule(input) ==
    IF /\ Len(input) = EthAddressHexLen + 2
       /\ SubSeq(input, 1, 2) = <<"0", "x">>
       /\ IsHexOfLength(SubSeq(input, 3, Len(input)), EthAddressHexLen)
    THEN "address"
    ELSE IF Len(input) >= 1 /\ input[1] = "[" /\ input[Len(input)] = "]"
    THEN "array"
    ELSE IF \/ IsHexOfLength(input, EthKeyHexLen)
            \/ /\ Len(input) = EthKeyHexLen + 2
               /\ SubSeq(input, 1, 2) = <<"0", "x">>
               /\ IsHexOfLength(SubSeq(input, 3, Len(input)), EthKeyHexLen)
    THEN "ethereum"
    ELSE IF IsHexOfLength(input, SolKeyHexLen) THEN "hex"
    ELSE "base58"

ChainOfRule(rule) ==
    IF rule = "address" THEN "address"
    ELSE IF rule = "ethereum" THEN "ethereum"
    ELSE "solana"

\* C4: every input is classified by the first matching rule of the list
\* (address, array, 64 hex with optional 0x prefix, 128 hex, Base58): that
\* rule's decode path is the one taken, and its chain the one returned.
C4_ListedOrder ==
    pResult # NotParsed =>
        /\ pResult.tried = <<ListedRule(pInput)>>
        /\ pResult.ok => pResult.type = ChainOfRule(ListedRule(pInput))

\* the format an error message names
FormatNamed(error) ==
    IF error.text = "Invalid array format private key" THEN "array"
    ELSE IF error.text = "Invalid hex format private key" THEN "hex"
    ELSE IF error.text = "Invalid base58 format private key" THEN "base58"
    ELSE "none"

\* C5: whenever parsing fails, in decoding or in key construction, the error
\* names the format that was attempted.
C5_ErrorNamesFormat ==
    (pResult # NotParsed /\ ~pResult.ok) =>
        FormatNamed(pResult.error) = ListedRule(pInput)

\* C6: a pipeline whose input is a bare Ethereum address or an Ethereum private
\* key sends only eligibility queries for its address, never a request to the
\* auth endpoints; for a bare address the address queried and reported is the
\* input itself.
C6_EthereumSkipsAuth ==
    \A k \in DOMAIN pipe :
        pipe[k].type \in {"address", "ethereum"} =>
            /\ \A j \in 1..Len(pipe[k].log) :
                  /\ pipe[k].log[j].endpoint = "ELIGIBILITY"
                  /\ pipe[k].log[j].args = <<pipe[k].wallet>>
            /\ pipe[k].type = "address" =>
                  /\ pipe[k].wallet = pipe[k].input
                  /\ pipe[k].result # NoResult => pipe[k].result.wallet = pipe[k].input

\* a bare address and an Ethereum private key have both been checked
C6_Witness ==
    /\ \E k \in DOMAIN pipe :
          /\ pipe[k].type = "address"
          /\ pipe[k].pc = "Succeeded"
          /\ pipe[k].input = BareAddressA
    /\ \E k \in DOMAIN pipe :
          /\ pipe[k].type = "ethereum"
          /\ pipe[k].pc = "Succeeded"

\* the specification's state of a pipeline
Phase(p) ==
    IF p.pc \in {"AwaitAuthMessage", "AwaitAuthToken"} THEN "Authenticating"
    ELSE IF p.pc = "AwaitEligibility" THEN "Querying"
    ELSE p.pc

PhaseRank(p) ==
    IF Phase(p) = "Pending" THEN 0
    ELSE IF Phase(p) = "Authenticating" THEN 1
    ELSE IF Phase(p) = "Querying" THEN 2
    ELSE 3

\* the challenge fetch returned successfully, then the token submission did,
\* and only then was the first eligibility query sent
AuthCompletedInOrder(p) ==
    \E a, b \in 1..Len(p.log) :
        /\ a < b
        /\ p.log[a].endpoint = "AUTH_MESSAGE" /\ ResponseOk(p.log[a].status)
        /\ p.log[b].endpoint = "AUTH_TOKEN" /\ ResponseOk(p.log[b].status)
        /\ \A j \in 1..Len(p.log) :
              /\ p.log[j].endpoint = "AUTH_MESSAGE" => j <= a
              /\ p.log[j].endpoint = "AUTH_TOKEN" => (a < j /\ j <= b)
              /\ p.log[j].endpoint = "ELIGIBILITY" => b < j

\* C7: every pipeline moves only forward through Pending, Authenticating,
\* Querying, Succeeded or Failed; a Solana pipeline is Querying only after the
\* challenge fetch and then the token submission returned successfully; a
\* pipeline that is Succeeded or Failed never changes again.
C7_ForwardOnly ==
    [][\A k \in DOMAIN pipe :
          /\ k \in DOMAIN pipe'
          /\ PhaseRank(pipe[k]) <= PhaseRank(pipe'[k])
          /\ Terminal(pipe[k]) => pipe'[k] = pipe[k]
          /\ (pipe'[k].type = "solana" /\ Phase(pipe'[k]) \in {"Querying", "Succeeded"})
                => AuthCompletedInOrder(pipe'[k])
          /\ (pipe'[k].type = "solana" /\ Phase(pipe[k]) = "Pending")
                => Phase(pipe'[k]) \in {"Pending", "Authenticating", "Failed"}]_vars

\* a Solana pipeline went through both auth steps, one of them retried, and
\* succeeded
C7_Witness ==
    \E k \in DOMAIN pipe :
        /\ pipe[k].type = "solana"
        /\ pipe[k].pc = "Succeeded"
        /\ Len(pipe[k].log) > 3

\* C8: a request answered with 429 is followed, after the fixed delay, by the
\* same request with the same arguments, however many times that happens; a
\* pipeline never ends on a 429 and no result reports status 429.
C8_RetryOn429 ==
    \A k \in DOMAIN pipe :
        /\ \A j \in 1..Len(pipe[k].log) :
              /\ pipe[k].log[j].status = 429 =>
                    /\ ~Terminal(pipe[k]) \/ j < Len(pipe[k].log)
                    /\ j = Len(pipe[k].log) => pipe[k].sleeping
                    /\ j < Len(pipe[k].log) =>
                          /\ pipe[k].log[j + 1].endpoint = pipe[k].log[j].endpoint
                          /\ pipe[k].log[j + 1].args = pipe[k].log[j].args
                          /\ pipe[k].log[j + 1].delayBefore = RetryDelayMs
              /\ pipe[k].log[j].delayBefore # 0 => (j > 1 /\ pipe[k].log[j - 1].status = 429)
        /\ pipe[k].sleeping => pipe[k].log[Len(pipe[k].log)].status = 429
        /\ pipe[k].result.status = "error" => pipe[k].result.error.status # 429

\* a pipeline that got 429 twice in a row on its token submission and then
\* went on to its result
C8_Witness ==
    \E k \in DOMAIN pipe :
        /\ Terminal(pipe[k])
        /\ \E j \in 1..(Len(pipe[k].log) - 1) :
              /\ pipe[k].log[j].endpoint = "AUTH_TOKEN"
              /\ pipe[k].log[j].status = 429
              /\ pipe[k].log[j + 1].status = 429

\* a response with a status that is neither a success nor 429
IsHttpFailure(request) ==
    /\ request.reply \notin {"pending", "netfail"}
    /\ ~ResponseOk(request.status)
    /\ request.status # 429

\* C9: a request answered with a non-success status other than 429 is the
\* pipeline's last request: the pipeline is Failed, and the error message of
\* its result carries that status and the raw response body.
C9_HttpFailureIsFinal ==
    \A k \in DOMAIN pipe :
        \A j \in 1..Len(pipe[k].log) :
            IsHttpFailure(pipe[k].log[j]) =>
                /\ j = Len(pipe[k].log)
                /\ pipe[k].pc = "Failed"
                /\ ~pipe[k].sleeping
                /\ pipe[k].result.status = "error"
                /\ pipe[k].result.error.status = pipe[k].log[j].status
                /\ pipe[k].result.error.body = pipe[k].log[j].body
                /\ pipe[k].log[j].body # ""

\* a Solana pipeline failed on a 500 from the token endpoint after a retry
C9_Witness ==
    \E k \in DOMAIN pipe :
        /\ pipe[k].pc = "Failed"
        /\ Len(pipe[k].log) > 2
        /\ pipe[k].log[Len(pipe[k].log)].endpoint = "AUTH_TOKEN"
        /\ pipe[k].log[Len(pipe[k].log)].status = 500

CountOf(rs, Test(_)) == Cardinality({k \in 1..Len(rs) : Test(rs[k])})

\* C10: when the run completes, successful + failed is the number of non-blank
\* input lines, eligible <= successful, and the three counters are the numbers
\* of results with status success, with status error, and with status success
\* and eligible true.
C10_CountersPartitionResults ==
    mainPc = "done" =>
        /\ successful + failed = Len(ExpectedKeys)
        /\ eligible <= successful
        /\ successful = CountOf(results, LAMBDA r : r.status = "success")
        /\ failed = CountOf(results, LAMBDA r : r.status = "error")
        /\ eligible = CountOf(results, LAMBDA r : r.status = "success" /\ r.eligible)

\* a completed run with failures, and with successes only some of which are
\* eligible
C10_Witness ==
    /\ mainPc = "done"
    /\ failed > 0
    /\ eligible > 0
    /\ eligible < successful


\* the fields a result may have
SuccessFields == {"wallet", "status", "eligible", "tokens", "categories"}

ErrorFields == {"wallet", "status", "error"}

\* the texts of the error messages, none of which is made from the input
PublicErrorTexts ==
    {"Invalid array format private key", "Invalid hex format private key",
     "Invalid base58 format private key", "bad secret key size",
     "provided secretKey is invalid", "HTTP error! status: ", "fetch failed",
     "Cannot read properties of null (reading 'message')",
     "Cannot read properties of null (reading 'total')"}

\* what the service put into its responses
ServiceBodies == {resp.body : resp \in FaultResponses} \cup {""}

\* the replies a pipeline received, in order
Replies(p) == [j \in 1..Len(p.log) |-> p.log[j].reply]

\* a result holds the address or 'Unknown', never the input that held a key
HoldsNoKey(p, r) ==
    /\ DOMAIN r \in {SuccessFields, ErrorFields}
    /\ r.wallet = Unknown \/ r.wallet = p.wallet
    /\ p.type # "address" => r.wallet # p.input
    /\ r.status = "error" =>
          /\ r.error.text \in PublicErrorTexts
          /\ r.error.body \in ServiceBodies

\* C11: no key material is in a result or in the output file: a result has
\* only the address (or 'Unknown'), the status and either eligible, tokens and
\* categories or an error message made of fixed texts and what the service
\* sent; and two pipelines whose inputs give the same address and that receive
\* the same responses have the same result, however the key was written.
C11_NoKeyInOutput ==
    /\ \A k \in DOMAIN pipe :
          pipe[k].result # NoResult => HoldsNoKey(pipe[k], pipe[k].result)
    /\ \A k \in 1..Len(results) : HoldsNoKey(pipe[k], results[k])
    /\ outFile.written =>
          /\ outFile.content = JArray(JsonStringify(results))
          /\ \A k \in 1..Len(results) :
                /\ DOMAIN outFile.content.items[k] \in {SuccessFields, ErrorFields}
                /\ outFile.content.items[k].wallet = results[k].wallet
    /\ \A k1, k2 \in DOMAIN pipe :
          (/\ Terminal(pipe[k1]) /\ Terminal(pipe[k2])
           /\ pipe[k1].type # "none"
           /\ pipe[k1].wallet = pipe[k2].wallet
           /\ Replies(pipe[k1]) = Replies(pipe[k2]))
          => pipe[k1].result = pipe[k2].result

\* the output was written for one Ethereum key given without and with the 0x
\* prefix, both retried once and then answered alike, beside a line that
\* failed to parse
C11_Witness ==
    /\ outFile.written
    /\ \E k1, k2 \in DOMAIN pipe :
          /\ pipe[k1].input # pipe[k2].input
          /\ pipe[k1].type = "ethereum"
          /\ pipe[k1].wallet = pipe[k2].wallet
          /\ Replies(pipe[k1]) = Replies(pipe[k2])
          /\ Len(pipe[k1].log) > 1
          /\ pipe[k1].result.status = "success"
    /\ \E k \in DOMAIN pipe : pipe[k].type = "none" /\ pipe[k].result.status = "error"


\* C12: the record written at the end of a run holds the aggregate counts
\* (total, successful, failed, eligible) together with the list of results.
C12_OutputHoldsCounts ==
    outFile.written =>
        /\ outFile.content.t = "object"
        /\ outFile.content.total = Len(privateKeys)
        /\ outFile.content.successful = successful
        /\ outFile.content.failed = failed
        /\ outFile.content.eligible = eligible
        /\ outFile.content.results = JsonStringify(results)

\* the public key half of a 64-byte secret key
PublicKeyOf(key) == SubSeq(key, SeedLen + 1, SecretKeyLen)

\* C13: a valid 64-byte Solana secret key resolves to chain solana, the same
\* address and the same key bytes whether it is written as Base58, as a JSON
\* byte array or as 128 hex characters (in either case of the letters).
C13_SameKeyInEveryEncoding ==
    \A key \in ValidSolanaKeys :
        (pResult # NotParsed /\ pInput \in SolanaEncodings(key)) =>
            /\ pResult.ok
            /\ pResult.type = "solana"
            /\ pResult.wallet = Base58Encode(PublicKeyOf(key))
            /\ pResult.privateKeyBytes = key

\* the Base58 text of a key that begins with zero bytes has been parsed
C13_Witness ==
    /\ pInput = Base58Encode(SolKeyZ)
    /\ pInput[1] = "1"
    /\ pResult # NotParsed
    /\ pResult.ok
    /\ pResult.wallet = Base58Encode(PublicKeyOf(SolKeyZ))

\* C14: a setup failure is fatal: when the input file cannot be read no
\* request is sent, nothing is written and the exit code is non-zero; when the
\* output cannot be written the exit code is non-zero; and a run without a
\* setup failure does not exit non-zero: it completes with its output written.
C14_SetupFailureIsFatal ==
    /\ mainErr = ReadError =>
          /\ mainPc = "exit1"
          /\ ~outFile.written
          /\ pipe = <<>>
          /\ issued = 0 /\ throttled = 0
    /\ mainErr = WriteError => (mainPc = "exit1" /\ ~outFile.written)
    /\ mainErr \notin SetupErrors => mainPc # "exit1"
    /\ mainPc = "done" => (outFile.written /\ mainErr = NoError)


\* the body of the eligibility response named `reply`
EligibilityOf(reply) == (CHOOSE resp \in EligibilityResponses : resp.name = reply).json

\* C15: a Succeeded result reports the total of the eligibility response to
\* its own address as tokens, eligible exactly when that total is above 0, and
\* the response's category list, or the empty list when the response has
\* none; every eligibility request carries the one-element list holding the
\* address.
C15_ResultMapsResponse ==
    \A k \in DOMAIN pipe :
        /\ \A j \in 1..Len(pipe[k].log) :
              pipe[k].log[j].endpoint = "ELIGIBILITY" =>
                  pipe[k].log[j].args = <<pipe[k].wallet>>
        /\ pipe[k].pc = "Succeeded" =>
              LET last == pipe[k].log[Len(pipe[k].log)]
                  e == EligibilityOf(last.reply)
                  r == pipe[k].result
              IN  /\ last.endpoint = "ELIGIBILITY"
                  /\ ResponseOk(last.status)
                  /\ r.status = "success"
                  /\ last.args = <<r.wallet>>
                  /\ r.tokens = e.total
                  /\ r.eligible = (e.total > 0)
                  /\ r.categories = (IF e.categories.t = "array" THEN e.categories
                                     ELSE JArray(<<>>))

\* a Solana wallet with no tokens, one with tokens and categories, and one
\* with tokens and no category list have succeeded
C15_Witness ==
    /\ \E k \in DOMAIN pipe :
          /\ pipe[k].type = "solana" /\ pipe[k].pc = "Succeeded"
          /\ ~pipe[k].result.eligible /\ pipe[k].result.tokens = 0
    /\ \E k \in DOMAIN pipe :
          /\ pipe[k].pc = "Succeeded" /\ pipe[k].result.eligible
          /\ pipe[k].result.categories = JArray(<<>>)
          /\ pipe[k].log[Len(pipe[k].log)].reply = "eligNoCats"


HexLowerChars == {HexLowerSeq[h] : h \in 1..Len(HexLowerSeq)}

\* '0x' followed by the lower-case hex digits of a 64-byte signature
IsSignatureText(sig) ==
    /\ Len(sig) = 2 + 2 * SecretKeyLen
    /\ sig[1] = "0" /\ sig[2] = "x"
    /\ \A j \in 3..Len(sig) : sig[j] \in HexLowerChars

\* what signing leaves alone in the pipeline that signs
SigningInputs(p) == <<p.input, p.wallet, p.type, p.privateKeyBytes, p.result, p.walletNum>>

WindowOf(k) == (k - 1) \div batchSize

Started(p) == p.pc # "Pending"

InFlight(p) == Started(p) /\ ~Terminal(p)

\* C17: windows are consecutive slices of at most 5 inputs that run one after
\* another: a pipeline has started only if every pipeline of every earlier
\* window is terminal, at most 5 pipelines are in flight, and the results list
\* holds whole windows only, each appended after all its pipelines ended.
C17_WindowsRunInTurn ==
    /\ mainPc \in {"loop", "await", "pause"} =>
          /\ i % batchSize = 0
          /\ Cardinality(Window(privateKeys, i)) <= batchSize
          /\ Window(privateKeys, i) =
                {k \in DOMAIN pipe : WindowOf(k) = i \div batchSize}
    /\ \A k \in DOMAIN pipe :
          Started(pipe[k]) =>
              /\ WindowOf(k) <= i \div batchSize
              /\ \A j \in DOMAIN pipe : WindowOf(j) < WindowOf(k) => Terminal(pipe[j])
    /\ Cardinality({k \in DOMAIN pipe : InFlight(pipe[k])}) <= batchSize
    /\ Len(results) % batchSize = 0 \/ Len(results) = Len(privateKeys)
    /\ \A k \in 1..Len(results) :
          /\ results[k] = pipe[k].result
          /\ \A j \in DOMAIN pipe : WindowOf(j) = WindowOf(k) => Terminal(pipe[j])

\* the second window is running with a request in flight, after the first
\* window, which had two pipelines on the network, was appended
C17_Witness ==
    /\ mainPc = "await"
    /\ i = batchSize
    /\ Len(results) = batchSize
    /\ \E k \in DOMAIN pipe : WindowOf(k) = 1 /\ InFlight(pipe[k])
    /\ \E k \in DOMAIN pipe : WindowOf(k) = 0 /\ Len(pipe[k].log) > 0

\* the number of windows of n inputs
NumWindows(n) == (n + batchSize - 1) \div batchSize

\* C18: a run over W windows pauses W-1 times: once after the barrier of every
\* window but the last, before any pipeline of the next window starts; there
\* is no pause for an empty input or a single window, and none between the
\* last barrier and the writing of the output.
C18_PauseBetweenWindows ==
    /\ mainPc \in {"loop", "await"} => pauses = i \div batchSize
    /\ mainPc = "pause" =>
          /\ pauses = i \div batchSize + 1
          /\ i + batchSize < Len(privateKeys)
          /\ Len(results) = i + batchSize
          /\ \A k \in DOMAIN pipe : WindowOf(k) > i \div batchSize => ~Started(pipe[k])
    /\ mainPc \in {"save", "done"} =>
          pauses = (IF Len(privateKeys) = 0 THEN 0
                    ELSE NumWindows(Len(privateKeys)) - 1)
    /\ pauses * batchSize <= Len(results)

\* a run over three windows is complete, after two pauses
C18_Witness ==
    /\ mainPc = "done"
    /\ NumWindows(Len(privateKeys)) = 3
    /\ pauses = 2


\* C19: when every request is eventually answered and 429 is answered only
\* finitely often, every pipeline eventually is Succeeded or Failed and the
\* run eventually writes its output (a run stopped by a setup failure aside).
C19_EventuallyWritten ==
    <>(\/ mainErr \in SetupErrors
       \/ /\ outFile.written
          /\ \A k \in DOMAIN pipe : Terminal(pipe[k]))


\* the signatures a pipeline submitted to the token endpoint, one per request
SubmittedSignatures(p) ==
    SelectSeq([j \in 1..Len(p.log) |->
                  IF p.log[j].endpoint = "AUTH_TOKEN" THEN p.log[j].args[1] ELSE <<>>],
              LAMBDA sig : sig # <<>>)

\* C20: a signature made from a fetched challenge is submitted to the token
\* endpoint at most once, also when the token endpoint answers 429.
C20_SignatureSingleUse ==
    \A k \in DOMAIN pipe :
        LET sent == SubmittedSignatures(pipe[k])
        IN  \A a, b \in 1..Len(sent) : a # b => sent[a] # sent[b]


\* the token requests a pipeline has sent, as the bodies that went out
TokenBodies(p) ==
    {TokenBody(p.log[j].args) :
        j \in {n \in 1..Len(p.log) : p.log[n].endpoint = "AUTH_TOKEN"}}

\* C21: every token request of a pipeline carries the signature of the message
\* of a challenge that this same pipeline fetched, the signingDate of that same
\* challenge, the type 'solana' and the address derived from the pipeline's own
\* key; pipelines that run concurrently never hold or send each other's
\* challenge, signature or address.
C21_TokenRequestOwnChallenge ==
    [][\A k \in DOMAIN pipe' :
          LET q == pipe'[k]
          IN  /\ \A body \in TokenBodies(q) :
                    /\ q.type = "solana"
                    /\ body = [signature |-> q.signature,
                               signingDate |-> q.authMessage.signingDate,
                               type |-> "solana",
                               wallet |-> q.wallet]
              /\ q.authMessage # NoChallenge =>
                    /\ \A j \in DOMAIN pipe' :
                          j # k => /\ pipe'[j].authMessage # q.authMessage
                                   /\ pipe'[j].signature # q.signature
                    /\ IF pipe[k].authMessage = NoChallenge
                       THEN \* the step in which this pipeline's fetch is answered
                            /\ PendingRequest(pipe[k]).endpoint = "AUTH_MESSAGE"
                            /\ issued' = issued + 1
                            /\ q.authMessage = FreshChallenge(issued')
                            /\ q.signature =
                                  signMessage(q.authMessage.message, q.privateKeyBytes)
                            /\ q.input = ExpectedKeys[k]
                            /\ q.wallet = Base58Encode(PublicKeyOf(q.privateKeyBytes))
                            /\ q.wallet = Expected[inputLines].wallets[k]
                            /\ TokenBodies(q) # {}
                            /\ \A j \in DOMAIN pipe : j # k => pipe'[j] = pipe[j]
                       ELSE /\ q.authMessage = pipe[k].authMessage
                            /\ q.wallet = pipe[k].wallet
                            /\ TokenBodies(q) = TokenBodies(pipe[k])]_vars

\* two Solana pipelines of one window have both sent their token request, each
\* with its own challenge, the later pipeline's fetch having been answered
\* first
C21_Witness ==
    \E k1, k2 \in DOMAIN pipe :
        /\ k1 < k2
        /\ WindowOf(k1) = WindowOf(k2)
        /\ pipe[k1].pc = "AwaitAuthToken"
        /\ pipe[k2].pc = "AwaitAuthToken"
        /\ TokenBodies(pipe[k1]) # {}
        /\ TokenBodies(pipe[k2]) # {}
        /\ pipe[k1].authMessage = FreshChallenge(2)
        /\ pipe[k2].authMessage = FreshChallenge(1)


\* the two shapes of a result of checkWallet
ResultShape(r) ==
    \/ /\ r.status = "success"
       /\ DOMAIN r = SuccessFields
       /\ r.eligible \in BOOLEAN
       /\ r.tokens \in Nat
       /\ r.categories.t = "array"
    \/ /\ r.status = "error"
       /\ DOMAIN r = ErrorFields
       /\ r.error # NoError

\* C22: every result of checkWallet has exactly one of two shapes, a success
\* with eligible, tokens and categories and no error, or an error with an error
\* message and none of those three, and is never changed after it was made:
\* neither in its pipeline, nor in the results list, nor once it is written.
C22_ResultShapeFixed ==
    [][/\ \A k \in DOMAIN pipe' :
             LET r == pipe'[k].result
             IN  /\ Terminal(pipe'[k]) <=> r # NoResult
                 /\ r # NoResult =>
                       /\ ResultShape(r)
                       /\ r.status = "success" <=> pipe'[k].pc = "Succeeded"
                 /\ (k \in DOMAIN pipe /\ pipe[k].result # NoResult) =>
                       r = pipe[k].result
       /\ Len(results') >= Len(results)
       /\ \A j \in 1..Len(results') :
             /\ ResultShape(results'[j])
             /\ results'[j] = pipe'[j].result
             /\ j <= Len(results) => results'[j] = results[j]
       /\ outFile.written => outFile' = outFile
       /\ outFile'.written => outFile'.content = JArray(JsonStringify(results'))]_vars

\* a success and an error result of the first window are in the results list
\* while a pipeline of the second window has made its own result
C22_Witness ==
    /\ \E a, b \in 1..Len(results) :
          /\ results[a].status = "success"
          /\ results[b].status = "error"
    /\ \E k \in DOMAIN pipe : k > Len(results) /\ pipe[k].result # NoResult
    /\ mainPc = "await"


\* C23: a Failed result carries 'Unknown' exactly when the failure happened
\* before an address was resolved, that is the input is not a bare address and
\* parsing or key construction failed, so that no request was sent; a failure
\* of a network step carries the address that was resolved before it.
C23_UnknownOnlyBeforeResolution ==
    \A k \in DOMAIN pipe :
        pipe[k].pc = "Failed" =>
            LET p == pipe[k]
                unresolved == Expected[inputLines].wallets[k] = Unknown
            IN  /\ p.result.status = "error"
                /\ p.result.wallet = Expected[inputLines].wallets[k]
                /\ p.result.wallet = Unknown <=> unresolved
                /\ unresolved <=> p.log = <<>>
                /\ unresolved <=> p.type = "none"
                /\ unresolved => ~isValidEthereumAddress(p.input)
                /\ ~unresolved => /\ p.result.wallet = p.wallet
                                  /\ PendingRequest(p).reply # "pending"

\* one window has ended with both kinds of failure: a line that could not be
\* parsed, labelled 'Unknown', and a key whose eligibility request failed,
\* labelled with its address
C23_Witness ==
    \E a, b \in DOMAIN pipe :
        /\ pipe[a].pc = "Failed" /\ pipe[a].result.wallet = Unknown
        /\ pipe[b].pc = "Failed" /\ pipe[b].result.wallet # Unknown
        /\ pipe[b].type = "ethereum"
        /\ WindowOf(a) = WindowOf(b)


\* the challenges the service has issued, counted from the answers in the logs
ChallengesReceived ==
    LET n[k \in 0..Len(pipe)] ==
            IF k = 0 THEN 0
            ELSE n[k - 1] + Cardinality({j \in 1..Len(pipe[k].log) :
                                            pipe[k].log[j].reply = "msg"})
    IN  n[Len(pipe)]

\* C24: an input that fails parsing sends no network request at all: its
\* pipeline goes from Pending to Failed with an empty request log, holds no
\* challenge and no signature, never waits for a retry, and every challenge
\* the service issued was asked for by a pipeline whose input did parse.
C24_ParseFailureSendsNothing ==
    /\ \A k \in DOMAIN pipe :
          Expected[inputLines].wallets[k] = Unknown =>
              /\ pipe[k].log = <<>>
              /\ pipe[k].pc \in {"Pending", "Failed"}
              /\ ~pipe[k].sleeping
              /\ pipe[k].authMessage = NoChallenge
              /\ pipe[k].signature = <<>>
              /\ Started(pipe[k]) => pipe[k].result.status = "error"
    /\ issued = ChallengesReceived

\* in one window a line that failed parsing has Failed without a request while
\* a Solana key of the same window has a request on the network
C24_Witness ==
    \E a, b \in DOMAIN pipe :
        /\ WindowOf(a) = WindowOf(b)
        /\ pipe[a].pc = "Failed" /\ pipe[a].log = <<>>
        /\ pipe[b].pc = "AwaitAuthToken"
        /\ issued = 1


\* C25: the wallet number printed in the progress line of a result equals the
\* 1-based position of its input line in the list of keys, also when the same
\* line occurs more than once in one window.
C25_WalletNumIsPosition ==
    \A k \in DOMAIN pipe :
        pipe[k].walletNum # 0 => pipe[k].walletNum = k


\* the pipelines that have ended, with the given outcome
Finished(pcs) == {k \in DOMAIN pipe : pipe[k].pc \in pcs}

\* C26: the counters never lose an update: at every moment successful + failed
\* is the number of pipelines that have finished (successful the Succeeded
\* ones, failed the Failed ones, eligible the eligible successes), and once a
\* window's results are appended the sum equals the length of the results list.
C26_CountersLoseNoUpdate ==
    /\ successful + failed = Cardinality(Finished({"Succeeded", "Failed"}))
    /\ successful = Cardinality(Finished({"Succeeded"}))
    /\ failed = Cardinality(Finished({"Failed"}))
    /\ eligible = Cardinality({k \in Finished({"Succeeded"}) : pipe[k].result.eligible})
    /\ mainPc \in {"loop", "pause", "save", "done"} => successful + failed = Len(results)
    /\ mainPc = "await" => /\ Len(results) = i
                           /\ successful + failed >= Len(results)

\* in one window two pipelines have finished on the network, one a success
\* and one a failure, while a third still waits for its answer
C26_Witness ==
    /\ mainPc = "await"
    /\ \E a, b, c \in Window(privateKeys, i) :
          /\ pipe[a].pc = "Succeeded"
          /\ pipe[b].pc = "Failed" /\ pipe[b].log # <<>>
          /\ InFlight(pipe[c])
    /\ successful = 1
    /\ failed = 1


====
